---- MODULE Spec2Model ----
(***************************************************************************)
(* MaestroManager (managers/maestro.ts): a child process spoken to over    *)
(* newline-framed JSON-RPC on its stdio, with a pending-request table, a   *)
(* two-step handshake, a 30 s timeout per request and teardown on process  *)
(* death or shutdown().                                                    *)
(*                                                                         *)
(* One action is one event-loop task together with the promise             *)
(* continuations (microtasks) it schedules: Node runs those to completion  *)
(* before the next I/O, timer or child-process event is dispatched.        *)
(***************************************************************************)
EXTENDS Integers, Sequences, FiniteSets, TLC

\* ------------------------------------------------------------------ bounds
MaxReq == 5          \* correlation ids 0 .. MaxReq-1 may be allocated
MaxCalls == 2        \* the promises of the MaxCalls latest tool calls are observed
MaxProcs == 2        \* child processes spawned over the manager's lifetime
MaxShutdowns == 1    \* shutdown() invocations suspended in the grace period
MaxExpo == 2         \* children spawned by ExpoManager.launch()
MaxStops == 2        \* invocations of ExpoManager.stop() that found a child

Ids == 0 .. (MaxReq - 1)
Pids == 1 .. MaxProcs
None == 0            \* this.process === null
NoId == -1           \* message.id === undefined

\* Operation names a caller may pass to callTool.
Names == {"tap", "missing_op"}

\* ------------------------------------------------------ JSON values on the wire
\* message.result as the code reads it: def = FALSE is `undefined`; tools is the
\* `tools` member (hasTools = FALSE when absent); content is the `content`
\* member ("none" when absent or falsy).
Undefined == [def |-> FALSE, hasTools |-> FALSE, tools |-> {}, content |-> "none"]
\* {tools: [tap, screenshot], content: c1}
FullResult == [def |-> TRUE, hasTools |-> TRUE, tools |-> {"tap", "screenshot"}, content |-> "c1"]
\* {ok: true}
OkResult == [def |-> TRUE, hasTools |-> FALSE, tools |-> {}, content |-> "none"]

Results == {FullResult, OkResult}

\* A decoded line of the peer's stdout: id, whether it carries `method`, whether
\* it carries a truthy `error`, and its `result`.
Msg(id, method, error, result) == [id |-> id, method |-> method, error |-> error, result |-> result]

PeerMsgs ==
  {Msg(i, FALSE, FALSE, r) : i \in Ids, r \in Results}        \* Response-Success
  \cup {Msg(i, FALSE, TRUE, Undefined) : i \in Ids}           \* Response-Failure
  \cup {Msg(i, TRUE, FALSE, Undefined) : i \in Ids}           \* Request carrying an id
  \cup {Msg(NoId, TRUE, FALSE, Undefined)}                     \* notification

\* ----------------------------------------------------- ExpoManager's values
ExpoPids == 1 .. MaxExpo

StopIds == 1 .. MaxStops

\* `options.port ?? 8081`
DefaultPort == 8081

Ports == {DefaultPort, 19000}

\* `options.platform ?? null`
Platforms == {"null", "ios", "android"}

\* An invocation of stop(): the child it found, whether its 5 s timer is still
\* to fire, and whether its promise is resolved.
NoStop == [st |-> "unused", proc |-> None, timer |-> FALSE]

\* ------------------------------------------------ promises of sendRequest
\* outcome[id] is the promise sendRequest returned for the request with that id.
Unused == [st |-> "unused", val |-> Undefined, err |-> ""]
Pending == [st |-> "pending", val |-> Undefined, err |-> ""]
Resolved(v) == [st |-> "resolved", val |-> v, err |-> ""]
Rejected(e) == [st |-> "rejected", val |-> Undefined, err |-> e]

Settled(o) == o.st \in {"resolved", "rejected"}

\* resolve()/reject() of a JavaScript promise: the first call decides, later
\* calls are ignored.
settle(o, new) == IF o.st = "pending" THEN new ELSE o

VARIABLES
  process,          \* this.process: pid of the ChildProcess held, or None
  tools,            \* this.tools: names discovered by tools/list
  requestId,        \* this.requestId
  pendingRequests,  \* this.pendingRequests: ids that have an entry
  isInitialized,    \* this.isInitialized
  stdin,            \* frames written to the children's stdin, in write order
  outcome,          \* id -> promise returned by sendRequest
  initPc,           \* where the initialize() invocation is suspended
  initId,           \* the id initialize() awaits
  shutdownWaiting,  \* shutdown() invocations suspended in `await setTimeout(1000)`
  procs,            \* pid -> what the operating system knows of the child
  ignored,          \* the call just refused or the response just dropped, or ""
  \* McpServer's CallTool handler (index.ts), one invocation at a time
  rPc,              \* "idle", "local" (awaiting a handler), "forwarded", "done"
  rName,            \* request.params.name
  rArgs,            \* request.params.arguments
  rCalled,          \* what the handler called, with what, and how that ended
  rResult           \* how the handler ended: the value returned or the error thrown

sessionVars == <<process, tools, requestId, pendingRequests, isInitialized, stdin, outcome,
                 initPc, initId, shutdownWaiting, procs, ignored>>

routerVars == <<rPc, rName, rArgs, rCalled, rResult>>

\* The decoder of the child's stdout: readBuffer is the field of MaestroManager;
\* dRest is what the child has printed and the pipe has not handed over yet,
\* dSeen what the 'data' events have handed over, in dChunks events (counted up
\* to two); delivered are the messages handleStdout passed to handleMessage.
VARIABLES readBuffer, dRest, dSeen, dChunks, delivered

decodeVars == <<readBuffer, dRest, dSeen, dChunks, delivered>>

\* ExpoManager: its fields process, port and platform; the children it spawned;
\* the launch() that spawned each child; the invocations of stop(); and what
\* the latest call threw or returned at once.
VARIABLES expoProcess, expoPort, expoPlatform, expoProcs, launches, stops, expoReturned

expoVars == <<expoProcess, expoPort, expoPlatform, expoProcs, launches, stops, expoReturned>>

vars == <<sessionVars, routerVars, decodeVars, expoVars>>

\* A child is "unspawned", then "running"; "SIGTERM" and "SIGKILL" are a running
\* child that has been sent that signal (the stronger one, if both); "exited"
\* once its exit or error event has been delivered.
Alive(pid) == procs[pid] \in {"running", "SIGTERM", "SIGKILL"}

nprocs == Cardinality({pid \in Pids : procs[pid] # "unspawned"})

\* ChildProcess.kill(sig): a no-op on a child that has exited.
kill(ps, pid, sig) ==
  IF pid \in Pids /\ (ps[pid] = "running" \/ (ps[pid] = "SIGTERM" /\ sig = "SIGKILL"))
  THEN [ps EXCEPT ![pid] = sig]
  ELSE ps

Frame(id, method, name, pid) == [id |-> id, method |-> method, name |-> name, pid |-> pid]

\* The manager's fields and the promises it handed out, as one value the
\* handlers below transform.
This ==
  [process |-> process, tools |-> tools, requestId |-> requestId,
   pendingRequests |-> pendingRequests, isInitialized |-> isInitialized,
   stdin |-> stdin, outcome |-> outcome, initPc |-> initPc, initId |-> initId]

Commit(s) ==
  /\ process' = s.process
  /\ tools' = s.tools
  /\ requestId' = s.requestId
  /\ pendingRequests' = s.pendingRequests
  /\ isInitialized' = s.isInitialized
  /\ stdin' = s.stdin
  /\ outcome' = s.outcome
  /\ initPc' = s.initPc
  /\ initId' = s.initId

\* The promises that are still looked at: those of the handshake of the latest
\* initialize() and those of the MaxCalls latest tool calls.  When a request is
\* sent, the promise and the frame of the requests that leave this set are
\* dropped: the handshake of the previous initialize(), or the oldest tool call.
CallFrames(s) == SelectSeq(s.stdin, LAMBDA f : f.method = "tools/call")

Dropped(s, method) ==
  IF method = "initialize"
  THEN {s.stdin[k].id : k \in {n \in 1 .. Len(s.stdin) : s.stdin[n].method # "tools/call"}}
  ELSE IF method = "tools/call" /\ Len(CallFrames(s)) >= MaxCalls
  THEN {CallFrames(s)[1].id}
  ELSE {}

forget(s, method) ==
  [s EXCEPT !.outcome = [i \in Ids |-> IF i \in Dropped(s, method) THEN Unused ELSE @[i]],
            !.stdin = SelectSeq(@, LAMBDA f : f.id \notin Dropped(s, method))]

\* A request can be sent within the bounds: the counter has room for n ids and
\* no promise that is dropped is pending.
CanAllocate(n, method) ==
  /\ requestId + n <= MaxReq
  /\ Dropped(This, method) \cap pendingRequests = {}

\* ------------------------------------------------------------ wire form
\* Text is a sequence of characters; LF is the line feed.
LF == "\n"

\* String values that params.arguments may hold.
ArgTexts == {<<"x">>, <<LF>>, <<"x", LF, "y">>, <<LF, LF>>}

\* JSON.stringify that copies a string as it is.
stringify_Raw(text) == text

\* JSON.stringify of a string: a line feed becomes the two characters \ and n.
stringify(text) ==
  LET escaped[n \in 0 .. Len(text)] ==
        IF n = 0 THEN <<>>
        ELSE escaped[n - 1] \o (IF text[n] = LF THEN <<"\\", "n">> ELSE <<text[n]>>)
  IN <<"\"">> \o escaped[Len(text)] \o <<"\"">>

\* JSON.stringify(request) + '\n' for the request of frame f whose arguments
\* hold the string text.
wire(f, text) ==
  <<"{", f.method, f.name, "arguments">> \o stringify(text) \o <<"}">> \o <<LF>>

\* ---------------------------------------------------------------- handlers

\* sendRequest(request): rejects at once when there is no process; otherwise
\* registers the entry and writes the frame.  The write callback and the 30 s
\* timer it arms are the actions WriteError and Timeout.
sendRequest(s, method, name, id) ==
  IF s.process = None
  THEN [forget(s, method) EXCEPT !.outcome[id] = Rejected("Maestro process not running")]
  ELSE [forget(s, method) EXCEPT !.pendingRequests = @ \cup {id},
                            !.outcome[id] = Pending,
                            !.stdin = Append(@, Frame(id, method, name, s.process))]

\* handleMessage without `this.pendingRequests.delete(message.id)`.
handleMessage_KeepsEntry(s, m) ==
  IF m.id # NoId /\ m.id \in s.pendingRequests
  THEN IF m.error
       THEN [s EXCEPT !.outcome[m.id] = settle(@, Rejected("peer error"))]
       ELSE [s EXCEPT !.outcome[m.id] = settle(@, Resolved(m.result))]
  ELSE s

\* handleMessage that answers the oldest pending request, whatever message.id is.
Oldest(S) == CHOOSE i \in S : \A j \in S : i <= j

handleMessage_OldestFirst(s, m) ==
  IF m.id # NoId /\ s.pendingRequests # {}
  THEN LET id == Oldest(s.pendingRequests)
           s1 == [s EXCEPT !.pendingRequests = @ \ {id}]
       IN IF m.error
          THEN [s1 EXCEPT !.outcome[id] = settle(@, Rejected("peer error"))]
          ELSE [s1 EXCEPT !.outcome[id] = settle(@, Resolved(m.result))]
  ELSE s

\* handleMessage that calls resolve or reject first and deletes the entry after.
tableAtCompletion_SettlesFirst(s, m) == s.pendingRequests

\* The table at the moment handleMessage calls pending.resolve or
\* pending.reject: `this.pendingRequests.delete(message.id)` has run.
tableAtCompletion(s, m) == s.pendingRequests \ {m.id}

\* handleMessage(message)
handleMessage(s, m) ==
  IF m.id # NoId /\ m.id \in s.pendingRequests
  THEN LET s1 == [s EXCEPT !.pendingRequests = tableAtCompletion(s, m)]
       IN IF m.error
          THEN [s1 EXCEPT !.outcome[m.id] = settle(@, Rejected("peer error"))]
          ELSE [s1 EXCEPT !.outcome[m.id] = settle(@, Resolved(m.result))]
  ELSE s

\* sendRequest without the timer: nothing happens after 30 s.
onTimeout_NoTimer(s, id) == s

\* The timer callback without `this.pendingRequests.delete(request.id)`.
onTimeout_KeepsEntry(s, id) ==
  IF id \in s.pendingRequests
  THEN [s EXCEPT !.outcome[id] = settle(@, Rejected("Request timeout"))]
  ELSE s

\* The callback of setTimeout(30000) in sendRequest.
onTimeout(s, id) ==
  IF id \in s.pendingRequests
  THEN [s EXCEPT !.pendingRequests = @ \ {id},
                 !.outcome[id] = settle(@, Rejected("Request timeout"))]
  ELSE s

\* A write callback that gives up the whole session on an error.
onWriteError_TearsDown(s, id) ==
  [s EXCEPT !.isInitialized = FALSE,
            !.outcome = [i \in Ids |-> IF i \in s.pendingRequests \cup {id}
                                       THEN settle(@[i], Rejected("write error"))
                                       ELSE @[i]],
            !.pendingRequests = {}]

\* The callback of stdin.write in sendRequest, called with an error.
onWriteError(s, id) ==
  [s EXCEPT !.pendingRequests = @ \ {id},
            !.outcome[id] = settle(@, Rejected("write error"))]

\* cleanup() that also starts the ids over: `this.requestId = 0`.
cleanup_ResetsIds(s) ==
  [s EXCEPT !.process = None,
            !.isInitialized = FALSE,
            !.tools = {},
            !.requestId = 0,
            !.outcome = [i \in Ids |-> IF i \in s.pendingRequests
                                       THEN settle(@[i], Rejected("Maestro process terminated"))
                                       ELSE @[i]],
            !.pendingRequests = {}]

\* cleanup() without `this.tools.clear()`.
cleanup_KeepsTools(s) ==
  [s EXCEPT !.process = None,
            !.isInitialized = FALSE,
            !.outcome = [i \in Ids |-> IF i \in s.pendingRequests
                                       THEN settle(@[i], Rejected("Maestro process terminated"))
                                       ELSE @[i]],
            !.pendingRequests = {}]

\* cleanup() without the loop that rejects the pending requests.
cleanup_DropsPending(s) ==
  [s EXCEPT !.process = None,
            !.isInitialized = FALSE,
            !.tools = {},
            !.pendingRequests = {}]

\* cleanup() that drops the handle and leaves the rest to the caller.
cleanup_HandleOnly(s) == [s EXCEPT !.process = None]

\* cleanup() without `this.isInitialized = false`.
cleanup_StaysReady(s) ==
  [s EXCEPT !.process = None,
            !.tools = {},
            !.outcome = [i \in Ids |-> IF i \in s.pendingRequests
                                       THEN settle(@[i], Rejected("Maestro process terminated"))
                                       ELSE @[i]],
            !.pendingRequests = {}]

\* cleanup()
cleanup(s) ==
  [s EXCEPT !.process = None,
            !.isInitialized = FALSE,
            !.tools = {},
            !.outcome = [i \in Ids |-> IF i \in s.pendingRequests
                                       THEN settle(@[i], Rejected("Maestro process terminated"))
                                       ELSE @[i]],
            !.pendingRequests = {}]

\* initialize() with `this.isInitialized = true` moved before the tools/list
\* request.
initializeResume_ReadyEarly(s) ==
  IF s.initPc = "awaitInitialize" /\ Settled(s.outcome[s.initId])
  THEN IF s.outcome[s.initId].st = "resolved"
       THEN LET id == s.requestId
                s1 == sendRequest([s EXCEPT !.requestId = @ + 1, !.isInitialized = TRUE],
                                  "tools/list", "", id)
            IN IF s1.outcome[id].st = "pending"
               THEN [s1 EXCEPT !.initPc = "awaitToolsList", !.initId = id]
               ELSE [s1 EXCEPT !.initPc = "failed", !.initId = id]
       ELSE [s EXCEPT !.initPc = "failed"]
  ELSE IF s.initPc = "awaitToolsList" /\ Settled(s.outcome[s.initId])
  THEN LET o == s.outcome[s.initId]
       IN IF o.st = "resolved" /\ o.val.def
          THEN [s EXCEPT !.tools = IF o.val.hasTools THEN @ \cup o.val.tools ELSE @,
                         !.initPc = "done"]
          ELSE [s EXCEPT !.initPc = "failed"]
  ELSE s

\* The rest of initialize() after an await: it runs as soon as the promise it
\* awaits is settled.
initializeResume(s) ==
  IF s.initPc = "awaitInitialize" /\ Settled(s.outcome[s.initId])
  THEN IF s.outcome[s.initId].st = "resolved"
       THEN LET id == s.requestId
                s1 == sendRequest([s EXCEPT !.requestId = @ + 1], "tools/list", "", id)
            IN IF s1.outcome[id].st = "pending"
               THEN [s1 EXCEPT !.initPc = "awaitToolsList", !.initId = id]
               ELSE [s1 EXCEPT !.initPc = "failed", !.initId = id]
       ELSE [s EXCEPT !.initPc = "failed"]
  ELSE IF s.initPc = "awaitToolsList" /\ Settled(s.outcome[s.initId])
  THEN LET o == s.outcome[s.initId]
       IN IF o.st = "resolved" /\ o.val.def       \* undefined.tools throws
          THEN [s EXCEPT !.tools = IF o.val.hasTools THEN @ \cup o.val.tools ELSE @,
                         !.isInitialized = TRUE,
                         !.initPc = "done"]
          ELSE [s EXCEPT !.initPc = "failed"]
  ELSE s

\* callTool that waits its turn: it refuses while another request is pending.
callTool_OneAtATime(s, name) ==
  IF ~s.isInitialized
  THEN [s |-> s, threw |-> "callTool: not initialized", id |-> NoId]
  ELSE IF name \notin s.tools
  THEN [s |-> s, threw |-> "callTool: not found", id |-> NoId]
  ELSE IF s.pendingRequests # {}
  THEN [s |-> s, threw |-> "callTool: busy", id |-> NoId]
  ELSE LET id == s.requestId
       IN [s |-> sendRequest([s EXCEPT !.requestId = @ + 1], "tools/call", name, id),
           threw |-> "", id |-> id]

\* callTool that takes the id before its two checks.
callTool_AllocatesFirst(s, name) ==
  LET id == s.requestId
      s1 == [s EXCEPT !.requestId = @ + 1]
  IN IF ~s.isInitialized
     THEN [s |-> s1, threw |-> "callTool: not initialized", id |-> NoId]
     ELSE IF name \notin s.tools
     THEN [s |-> s1, threw |-> "callTool: not found", id |-> NoId]
     ELSE [s |-> sendRequest(s1, "tools/call", name, id), threw |-> "", id |-> id]

\* callTool with its two checks in the other order.
callTool_LookupFirst(s, name) ==
  IF name \notin s.tools
  THEN [s |-> s, threw |-> "callTool: not found", id |-> NoId]
  ELSE IF ~s.isInitialized
  THEN [s |-> s, threw |-> "callTool: not initialized", id |-> NoId]
  ELSE LET id == s.requestId
       IN [s |-> sendRequest([s EXCEPT !.requestId = @ + 1], "tools/call", name, id),
           threw |-> "", id |-> id]

\* callTool(name, args) up to its await: the outcome of the two checks and the
\* state after sendRequest.
callTool(s, name) ==
  IF ~s.isInitialized
  THEN [s |-> s, threw |-> "callTool: not initialized", id |-> NoId]
  ELSE IF name \notin s.tools
  THEN [s |-> s, threw |-> "callTool: not found", id |-> NoId]
  ELSE LET id == s.requestId
       IN [s |-> sendRequest([s EXCEPT !.requestId = @ + 1], "tools/call", name, id),
           threw |-> "", id |-> id]

\* What callTool's caller gets from the promise of its request: the value of
\* `response.content || {content: [{type: 'text', text: JSON.stringify(response)}]}`
\* or the rejection.
callToolResult(o) ==
  IF o.st = "resolved"
  THEN IF ~o.val.def
       THEN [st |-> "rejected", err |-> "TypeError", content |-> "none", wrapped |-> Undefined]
       ELSE IF o.val.content # "none"
       THEN [st |-> "resolved", err |-> "", content |-> o.val.content, wrapped |-> Undefined]
       ELSE [st |-> "resolved", err |-> "", content |-> "none", wrapped |-> o.val]
  ELSE [st |-> o.st, err |-> o.err, content |-> "none", wrapped |-> Undefined]

\* The value callTool returns for a response that is an object: a member of
\* the response, or a new envelope around its text, told apart from the
\* response itself.
TheResponse(r) == [is |-> "response", of |-> r]

callToolValue(r) ==
  IF r.content # "none"
  THEN [is |-> "response.content", of |-> r]
  ELSE [is |-> "{content: [{type: 'text', text: JSON.stringify(response)}]}", of |-> r]

isReady == isInitialized

getTools == tools

\* ------------------------------------------ McpServer's CallTool handler
\* A name is the sequence of the pieces it is made of: Prefix is the piece
\* 'maestro_', every other piece is text that does not contain it.
Prefix == "maestro_"

\* The keys of lifecycleToolSchemas, which are also those of lifecycleHandlers.
LifecycleNames == {<<"app_status">>, <<"launch_expo">>, <<"stop_expo">>}

\* Both are object literals: what they inherit from Object.prototype is `in`
\* them and is read from them as well.
InheritedNames == {<<"toString">>, <<"hasOwnProperty">>}

InboundNames ==
  LifecycleNames \cup InheritedNames
  \cup {<<Prefix, "tap">>, <<Prefix, "missing_op">>, <<Prefix, Prefix, "tap">>, <<Prefix>>,
        <<Prefix, "app_status">>, <<"tap">>, <<"tap", Prefix>>, <<"Maestro_", "tap">>}

\* request.params.arguments: absent, or an object.
Absent == "undefined"
EmptyArgs == "{}"
ArgValues == {Absent, "{x: 1}"}

\* args || {}
orEmpty(args) == IF args = Absent THEN EmptyArgs ELSE args

\* What a handler hands back: a {content: [{type: 'text', text}], isError}
\* envelope, or something else.
NoValue == [shape |-> "none", text |-> <<>>, isError |-> FALSE]
Envelope(text, isError) == [shape |-> "envelope", text |-> text, isError |-> isError]
FailureEnvelope(message) == Envelope(<<"Error: ">> \o message, TRUE)

\* How an invocation ended.
NoResult == [st |-> "none", value |-> NoValue, err |-> <<>>]
Returned(v) == [st |-> "resolved", value |-> v, err |-> <<>>]
Threw(e) == [st |-> "rejected", value |-> NoValue, err |-> e]

Call(kind, name, args) == [kind |-> kind, name |-> name, args |-> args, outcome |-> NoResult]
NoCall == Call("none", <<>>, Absent)

\* ------------------------------------------------------------------ actions

\* The lines the peer may print next.  requestId stands for every id that was
\* never issued; for an id that has no entry handleMessage reads nothing but
\* message.id, so one message stands for all that carry this id.
Incoming ==
  {m \in PeerMsgs :
     /\ m.id <= requestId
     /\ (m.id # NoId /\ m.id \notin pendingRequests) => m = Msg(m.id, FALSE, FALSE, OkResult)}

Init ==
  /\ process = None
  /\ tools = {}
  /\ requestId = 0
  /\ pendingRequests = {}
  /\ isInitialized = FALSE
  /\ stdin = <<>>
  /\ outcome = [i \in Ids |-> Unused]
  /\ initPc = "idle"
  /\ initId = NoId
  /\ shutdownWaiting = 0
  /\ procs = [pid \in Pids |-> "unspawned"]
  /\ ignored = ""
  /\ rPc = "idle"
  /\ rName = <<>>
  /\ rArgs = Absent
  /\ rCalled = NoCall
  /\ rResult = NoResult
  /\ readBuffer = <<>>
  /\ dRest = <<>>
  /\ dSeen = <<>>
  /\ dChunks = 0
  /\ delivered = <<>>
  /\ expoProcess = None
  /\ expoPort = DefaultPort
  /\ expoPlatform = "null"
  /\ expoProcs = [pid \in ExpoPids |-> "unspawned"]
  /\ launches = [pid \in ExpoPids |-> "none"]
  /\ stops = [k \in StopIds |-> NoStop]
  /\ expoReturned = ""

\* initialize() up to its first await.  Its only caller, McpServer.start, awaits
\* it, so invocations do not overlap.
Initialize ==
  /\ ignored = ""
  /\ initPc \in {"idle", "done", "failed"}
  /\ IF isInitialized
     THEN /\ ignored' = ""
          /\ UNCHANGED <<process, tools, requestId, pendingRequests, isInitialized, stdin,
                         outcome, initPc, initId, shutdownWaiting, procs>>
     ELSE /\ nprocs < MaxProcs
          /\ CanAllocate(2, "initialize")
          /\ LET pid == nprocs + 1
                 id == requestId
                 s1 == [This EXCEPT !.process = pid, !.requestId = @ + 1]
                 s2 == sendRequest(s1, "initialize", "", id)
             IN /\ Commit([s2 EXCEPT !.initPc = "awaitInitialize", !.initId = id])
                /\ procs' = [procs EXCEPT ![pid] = "running"]
          /\ ignored' = ""
          /\ UNCHANGED shutdownWaiting
  /\ UNCHANGED <<routerVars, decodeVars, expoVars>>

\* callTool(name, args) called by the router.
CallTool(name) ==
  /\ ignored = ""
  /\ (isInitialized /\ name \in tools) => CanAllocate(1, "tools/call")
  /\ Commit(callTool(This, name).s)
  /\ ignored' = callTool(This, name).threw
  /\ UNCHANGED <<shutdownWaiting, procs, routerVars, decodeVars, expoVars>>

\* handleStdout receives one complete line that parses to m.
Deliver(m) ==
  /\ ignored = ""
  /\ nprocs > 0
  /\ m \in Incoming
  /\ Commit(initializeResume(handleMessage(This, m)))
  /\ ignored' = IF m.id \in Ids /\ Settled(outcome[m.id]) THEN "late response" ELSE ""
  /\ UNCHANGED <<shutdownWaiting, procs, routerVars, decodeVars, expoVars>>

\* The 30 s timer of request id fires.
Timeout(id) ==
  /\ ignored = ""
  /\ \E k \in 1 .. Len(stdin) : stdin[k].id = id
  /\ Commit(initializeResume(onTimeout(This, id)))
  /\ ignored' = ""
  /\ UNCHANGED <<shutdownWaiting, procs, routerVars, decodeVars, expoVars>>

\* The write of request id's frame fails.
WriteError(id) ==
  /\ ignored = ""
  /\ \E k \in 1 .. Len(stdin) : stdin[k].id = id
  /\ Commit(initializeResume(onWriteError(This, id)))
  /\ ignored' = ""
  /\ UNCHANGED <<shutdownWaiting, procs, routerVars, decodeVars, expoVars>>

\* The 'exit' event of child pid.
ProcExit(pid) ==
  /\ ignored = ""
  /\ Alive(pid)
  /\ procs' = [procs EXCEPT ![pid] = "exited"]
  /\ Commit(initializeResume(cleanup(This)))
  /\ ignored' = ""
  /\ UNCHANGED <<shutdownWaiting, routerVars, decodeVars, expoVars>>

\* The 'error' event of child pid (it could not be spawned or was aborted).
ProcError(pid) ==
  /\ ignored = ""
  /\ Alive(pid)
  /\ procs' = [procs EXCEPT ![pid] = "exited"]
  /\ Commit(initializeResume(cleanup(This)))
  /\ ignored' = ""
  /\ UNCHANGED <<shutdownWaiting, routerVars, decodeVars, expoVars>>

\* shutdown() that sends SIGKILL where it should send SIGTERM.
shutdownStart_ForcesAtOnce(s, w, ps) ==
  IF s.process = None
  THEN [waiting |-> w, procs |-> ps, returned |-> "shutdown: not running"]
  ELSE [waiting |-> w + 1, procs |-> kill(ps, s.process, "SIGKILL"), returned |-> ""]

\* shutdown() without `if (!this.process) return`: kill is called on null.
shutdownStart_NoGuard(s, w, ps) ==
  IF s.process = None
  THEN [waiting |-> w, procs |-> ps, returned |-> "shutdown: TypeError"]
  ELSE [waiting |-> w + 1, procs |-> kill(ps, s.process, "SIGTERM"), returned |-> ""]

\* shutdown() up to `await setTimeout(1000)`: the number of invocations
\* suspended in the grace period and the children after SIGTERM.
shutdownStart(s, w, ps) ==
  IF s.process = None
  THEN [waiting |-> w, procs |-> ps, returned |-> "shutdown: not running"]
  ELSE [waiting |-> w + 1, procs |-> kill(ps, s.process, "SIGTERM"), returned |-> ""]

ShutdownStart ==
  LET r == shutdownStart(This, shutdownWaiting, procs)
  IN /\ ignored = ""
     /\ r.waiting <= MaxShutdowns
     /\ shutdownWaiting' = r.waiting
     /\ procs' = r.procs
     /\ ignored' = r.returned
     /\ UNCHANGED <<process, tools, requestId, pendingRequests, isInitialized, stdin,
                    outcome, initPc, initId, routerVars, decodeVars, expoVars>>

\* shutdown() after the grace period, with a teardown of its own that forgets
\* `this.tools.clear()`.
ShutdownResume_KeepsTools ==
  /\ ignored = ""
  /\ shutdownWaiting > 0
  /\ shutdownWaiting' = shutdownWaiting - 1
  /\ procs' = IF process # None THEN kill(procs, process, "SIGKILL") ELSE procs
  /\ Commit(initializeResume([cleanup(This) EXCEPT !.tools = tools]))
  /\ ignored' = ""
  /\ UNCHANGED <<routerVars, decodeVars, expoVars>>

\* shutdown() after the grace period.
ShutdownResume ==
  /\ ignored = ""
  /\ shutdownWaiting > 0
  /\ shutdownWaiting' = shutdownWaiting - 1
  /\ procs' = IF process # None THEN kill(procs, process, "SIGKILL") ELSE procs
  /\ Commit(initializeResume(cleanup(This)))
  /\ ignored' = ""
  /\ UNCHANGED <<routerVars, decodeVars, expoVars>>

\* The refused caller has its error, or the dropped response is gone; the
\* manager is as it was.  Every other action waits for this: a rejection reaches
\* its caller in the task that produced it.
Observe ==
  /\ ignored # ""
  /\ ignored' = ""
  /\ UNCHANGED <<process, tools, requestId, pendingRequests, isInitialized, stdin,
                 outcome, initPc, initId, shutdownWaiting, procs, routerVars, decodeVars, expoVars>>

Next ==
  \/ Observe
  \/ Initialize
  \/ \E name \in Names : CallTool(name)
  \/ \E m \in PeerMsgs : Deliver(m)
  \/ \E id \in Ids : Timeout(id)
  \/ \E id \in Ids : WriteError(id)
  \/ \E pid \in Pids : ProcExit(pid)
  \/ \E pid \in Pids : ProcError(pid)
  \/ ShutdownStart
  \/ ShutdownResume

Spec == Init /\ [][Next]_vars

\* The timer sendRequest arms with setTimeout(30000) is never cancelled: however
\* the other events interleave, its callback runs.
TimersFire == \A id \in Ids : SF_vars(id \in pendingRequests /\ Timeout(id))

\* A refusal reaches its caller within the task that produced it.
RefusalsReturn == WF_vars(Observe)

\* McpServer.start calls initialize() once, when the server starts.
Start ==
  /\ initPc = "idle"
  /\ Initialize

\* The manager as McpServer drives it: one initialize(), then calls, events of
\* the child and stop().
NextServer ==
  \/ Observe
  \/ Start
  \/ \E name \in Names : CallTool(name)
  \/ \E m \in PeerMsgs : Deliver(m)
  \/ \E id \in Ids : Timeout(id)
  \/ \E id \in Ids : WriteError(id)
  \/ \E pid \in Pids : ProcExit(pid)
  \/ \E pid \in Pids : ProcError(pid)
  \/ ShutdownStart
  \/ ShutdownResume

SpecLive == Init /\ [][NextServer]_vars /\ TimersFire /\ RefusalsReturn

\* McpServer.start() without the try around initialize(): a failed handshake
\* ends start() before the transport is connected.
startConnects_NoCatch == initPc = "done"

\* McpServer.start() has gone past `await this.maestroManager.initialize()`,
\* by its return or through the catch, and connects the transport.
startConnects == initPc \in {"done", "failed"}

\* ------------------------------------------- the CallTool handler at work

\* name in lifecycleToolSchemas
inRegistry(name) == name \in LifecycleNames \cup InheritedNames

\* this.lifecycleHandlers[name] is not undefined
hasHandler(name) == name \in LifecycleNames \cup InheritedNames

\* name.startsWith('maestro_')
startsWith(name) == Len(name) > 0 /\ name[1] = Prefix

\* name.substring that drops every 'maestro_' the name begins with or holds.
substring_StripsAll(name) == SelectSeq(name, LAMBDA piece : piece # Prefix)

\* name.substring('maestro_'.length), of a name that starts with the prefix
substring(name) == Tail(name)

\* A catch block that throws the error on.
onCatch_Rethrows(message) == Threw(message)

\* Either catch block: the failure envelope with `Error: ${error.message}`.
onCatch(message) == Returned(FailureEnvelope(message))

\* How a call of lifecycleHandlers[name] can end.  app_status and stop_expo
\* return their envelope; launch_expo also throws (server already running, not
\* ready in time).  Object.prototype.toString, called with no receiver, returns
\* a string; Object.prototype.hasOwnProperty then throws a TypeError.
LocalOutcomes(name) ==
  IF name = <<"launch_expo">>
  THEN {Returned(Envelope(<<"exp_url">>, FALSE)), Threw(<<"Expo server is already running">>),
        Threw(<<"Expo server did not start">>)}
  ELSE IF name = <<"toString">>
  THEN {Returned([shape |-> "string", text |-> <<"[object Undefined]">>, isError |-> FALSE])}
  ELSE IF name = <<"hasOwnProperty">>
  THEN {Threw(<<"Cannot convert undefined or null to object">>)}
  ELSE {Returned(Envelope(name, FALSE))}

\* The messages of the errors MaestroManager.callTool rejects with.
PeerErrors ==
  {"callTool: not initialized", "callTool: not found", "peer error", "Request timeout",
   "Maestro process terminated", "write error", "Maestro process not running"}

\* What maestroProxy.callTool hands the handler for what callTool's caller gets.
peerOutcome(c) ==
  IF c.st = "rejected"
  THEN Threw(<<c.err>>)
  ELSE IF c.content # "none"
  THEN Returned([shape |-> "content", text |-> <<c.content>>, isError |-> FALSE])
  ELSE Returned(Envelope(<<"JSON.stringify(response)">>, FALSE))

PeerOutcomes ==
  {peerOutcome(callToolResult(o)) :
     o \in {Resolved(r) : r \in Results \cup {Undefined}} \cup {Rejected(e) : e \in PeerErrors}}

\* The handler up to its await or its throw.
dispatch(name, args) ==
  IF inRegistry(name)
  THEN IF ~hasHandler(name)
       THEN [pc |-> "done", called |-> NoCall,
             result |-> Threw(<<"Handler not implemented for tool: ">> \o name)]
       ELSE [pc |-> "local", called |-> Call("local", name, orEmpty(args)), result |-> NoResult]
  ELSE IF startsWith(name)
  THEN [pc |-> "forwarded", called |-> Call("peer", substring(name), orEmpty(args)),
        result |-> NoResult]
  ELSE [pc |-> "done", called |-> NoCall, result |-> Threw(<<"Unknown tool: ">> \o name)]

\* The ListTools handler: the name of every schema of the registry, then
\* `maestro_${tool.name}` for every tool the proxy has.
lifecycleTools == LifecycleNames

\* The proxied tools listed under their own names.
maestroTools_Unprefixed == {<<x>> : x \in getTools}

maestroTools == {<<Prefix, x>> : x \in getTools}

listTools == lifecycleTools \cup maestroTools

\* The handler after its await.
settled(o) == IF o.st = "rejected" THEN onCatch(o.err) ELSE Returned(o.value)

\* A tools/call request reaches the handler.
Request(name, args) ==
  /\ rPc \in {"idle", "done"}
  /\ rName' = name
  /\ rArgs' = args
  /\ rPc' = dispatch(name, args).pc
  /\ rCalled' = dispatch(name, args).called
  /\ rResult' = dispatch(name, args).result
  /\ UNCHANGED <<sessionVars, decodeVars, expoVars>>

\* The promise of the lifecycle handler settles.
LocalSettles(o) ==
  /\ rPc = "local"
  /\ o \in LocalOutcomes(rCalled.name)
  /\ rCalled' = [rCalled EXCEPT !.outcome = o]
  /\ rResult' = settled(o)
  /\ rPc' = "done"
  /\ UNCHANGED <<rName, rArgs, sessionVars, decodeVars, expoVars>>

\* The promise of maestroProxy.callTool settles.
PeerSettles(o) ==
  /\ rPc = "forwarded"
  /\ rCalled' = [rCalled EXCEPT !.outcome = o]
  /\ rResult' = settled(o)
  /\ rPc' = "done"
  /\ UNCHANGED <<rName, rArgs, sessionVars, decodeVars, expoVars>>

RouterNext ==
  \/ \E name \in InboundNames, args \in ArgValues : Request(name, args)
  \/ \E name \in InboundNames : \E o \in LocalOutcomes(name) : LocalSettles(o)
  \/ \E o \in PeerOutcomes : PeerSettles(o)

SpecRouter == Init /\ [][RouterNext]_vars

\* ------------------------------------------------- the decoder of stdout
\* The text of the child's stdout is a sequence of pieces: LF, a blank, and
\* pieces of JSON text.  "{" d "}" stands for {"jsonrpc":"2.0","id":d,"result":{}}
\* and "n" for null; any other text is not JSON.
MaxLines == 3

Last(seq) == seq[Len(seq)]

Front(seq) == SubSeq(seq, 1, Len(seq) - 1)

\* text.split('\n')
RECURSIVE split(_)
split(text) ==
  IF \E i \in 1 .. Len(text) : text[i] = LF
  THEN LET i == CHOOSE i \in 1 .. Len(text) :
                  text[i] = LF /\ \A j \in 1 .. (i - 1) : text[j] # LF
       IN <<SubSeq(text, 1, i - 1)>> \o split(SubSeq(text, i + 1, Len(text)))
  ELSE <<text>>

\* line.trim()
RECURSIVE trim(_)
trim(line) ==
  IF line = <<>> THEN line
  ELSE IF Head(line) = " " THEN trim(Tail(line))
  ELSE IF Last(line) = " " THEN trim(Front(line))
  ELSE line

IdTexts == {"0", "1"}

\* The id a piece of text stands for.
idOf(d) == IF d = "0" THEN 0 ELSE 1

\* JSON.parse(line): it skips the white space around the value and throws a
\* SyntaxError for text that is not JSON.
JSONparse(line) ==
  LET t == trim(line)
  IN IF Len(t) = 3 /\ t[1] = "{" /\ t[2] \in IdTexts /\ t[3] = "}"
     THEN [threw |-> FALSE, null |-> FALSE, message |-> Msg(idOf(t[2]), FALSE, FALSE, OkResult)]
     ELSE IF t = <<"n">>
     THEN [threw |-> FALSE, null |-> TRUE, message |-> Msg(NoId, FALSE, FALSE, Undefined)]
     ELSE [threw |-> TRUE, null |-> FALSE, message |-> Msg(NoId, FALSE, FALSE, Undefined)]

\* The body of the loop of handleStdout for one line: a blank line is skipped;
\* the SyntaxError of JSON.parse and the TypeError of handleMessage(null), which
\* reads message.id, are caught and logged.
handleLine(s, line) ==
  IF Len(trim(line)) = 0 THEN s
  ELSE IF JSONparse(line).threw THEN s
  ELSE IF JSONparse(line).null THEN s
  ELSE handleMessage(s, JSONparse(line).message)

\* The line gives handleMessage a message to look at.
emits(line) == Len(trim(line)) # 0 /\ ~JSONparse(line).threw /\ ~JSONparse(line).null

\* for (const line of lines)
RECURSIVE forEach(_, _)
forEach(s, lines) ==
  IF lines = <<>> THEN s ELSE forEach(handleLine(s, Head(lines)), Tail(lines))

messages(lines) ==
  LET sel == SelectSeq(lines, emits)
  IN [k \in 1 .. Len(sel) |-> JSONparse(sel[k]).message]

\* handleStdout that forgets the text after the last LF: `this.readBuffer = ''`.
handleStdout_DropsPartial(s, buffer, data) ==
  LET lines == split(buffer \o data)
  IN [s |-> forEach(s, Front(lines)),
      readBuffer |-> <<>>,
      emitted |-> messages(Front(lines))]

\* The lines up to the first one whose JSON.parse throws.
RECURSIVE upToError(_)
upToError(lines) ==
  IF lines = <<>> THEN lines
  ELSE IF Len(trim(Head(lines))) # 0 /\ JSONparse(Head(lines)).threw THEN <<>>
  ELSE <<Head(lines)>> \o upToError(Tail(lines))

\* handleStdout with its try around the loop: the first error ends the loop.
handleStdout_StopsAtError(s, buffer, data) ==
  LET lines == split(buffer \o data)
  IN [s |-> forEach(s, upToError(Front(lines))),
      readBuffer |-> Last(lines),
      emitted |-> messages(upToError(Front(lines)))]

\* handleStdout(data), from the buffer it finds: the session and the buffer it
\* leaves, and the messages it gave to handleMessage.
handleStdout(s, buffer, data) ==
  LET lines == split(buffer \o data)
  IN [s |-> forEach(s, Front(lines)),
      readBuffer |-> Last(lines),
      emitted |-> messages(Front(lines))]

\* What the child prints: up to MaxLines lines, each ended by LF, then perhaps
\* the beginning of another line.
LineTexts ==
  {<<"{", "0", "}">>, <<"{", "1", "}">>, <<"{", "0">>, <<" ">>, <<>>, <<"n">>}

Partials == {<<>>, <<"{", "0">>}

RECURSIVE join(_)
join(lines) == IF lines = <<>> THEN <<>> ELSE Head(lines) \o <<LF>> \o join(Tail(lines))

StreamsOf(n) ==
  {join(ls) \o p : ls \in UNION {[1 .. k -> LineTexts] : k \in 0 .. n}, p \in Partials}
    \ {<<>>}

Streams == StreamsOf(MaxLines)

\* The child of the session prints a stream.
PeerWrites(stream) ==
  /\ process # None
  /\ initPc = "awaitInitialize"
  /\ dRest = <<>>
  /\ dSeen = <<>>
  /\ dRest' = stream
  /\ UNCHANGED <<sessionVars, routerVars, expoVars, readBuffer, dSeen, dChunks, delivered>>

\* A 'data' event of stdout with the next n pieces of the stream; what awaits a
\* promise that handleStdout settled goes on after it.
HandleStdout(n) ==
  /\ n \in 1 .. Len(dRest)
  /\ LET data == SubSeq(dRest, 1, n)
         r == handleStdout(This, readBuffer, data)
     IN /\ Commit(initializeResume(r.s))
        /\ readBuffer' = r.readBuffer
        /\ delivered' = delivered \o r.emitted
        /\ dSeen' = dSeen \o data
        /\ dRest' = SubSeq(dRest, n + 1, Len(dRest))
        /\ dChunks' = IF dChunks < 2 THEN dChunks + 1 ELSE dChunks
  /\ UNCHANGED <<shutdownWaiting, procs, ignored, routerVars, expoVars>>

NextDecode ==
  \/ Start
  \/ \E stream \in Streams : PeerWrites(stream)
  \/ \E n \in 1 .. Len(dRest) : HandleStdout(n)

SpecDecode == Init /\ [][NextDecode]_vars

\* The 'exit' event of the session's child, whose stdout ends with it: what it
\* printed and was not handed over is lost, and dSeen and delivered start
\* again for the next child.  cleanup() does not touch readBuffer.
SessionEnds ==
  /\ ignored = ""
  /\ process # None
  /\ Alive(process)
  /\ procs' = [procs EXCEPT ![process] = "exited"]
  /\ Commit(initializeResume(cleanup(This)))
  /\ dRest' = <<>>
  /\ dSeen' = <<>>
  /\ dChunks' = 0
  /\ delivered' = <<>>
  /\ UNCHANGED <<readBuffer, shutdownWaiting, ignored, routerVars, expoVars>>

\* Sessions one after the other, each child printing a short stream.
NextRestart ==
  \/ Initialize
  \/ \E stream \in StreamsOf(1) : PeerWrites(stream)
  \/ \E n \in 1 .. Len(dRest) : HandleStdout(n)
  \/ SessionEnds

SpecRestart == Init /\ [][NextRestart]_vars

\* ------------------------------------------------------------ ExpoManager
Expo == [process |-> expoProcess, port |-> expoPort, platform |-> expoPlatform]

ExpoAlive(pid) == expoProcs[pid] \in {"running", "SIGTERM", "SIGKILL"}

nexpo == Cardinality({pid \in ExpoPids : expoProcs[pid] # "unspawned"})

\* proc.kill(sig) of a child of ExpoManager
expoKill(ps, pid, sig) ==
  IF ps[pid] = "running" \/ (ps[pid] = "SIGTERM" /\ sig = "SIGKILL")
  THEN [ps EXCEPT ![pid] = sig]
  ELSE ps

\* launch() that records port and platform before it looks at this.process.
launch_RecordsFirst(e, port, platform, pid) ==
  IF e.process # None
  THEN [e |-> [e EXCEPT !.port = port, !.platform = platform],
        threw |-> "Expo server is already running. Stop it first.", spawned |-> FALSE]
  ELSE [e |-> [process |-> pid, port |-> port, platform |-> platform],
        threw |-> "", spawned |-> TRUE]

\* launch(options) up to `if (waitForReady)`; pid is the child spawn returns.
launch(e, port, platform, pid) ==
  IF e.process # None
  THEN [e |-> e, threw |-> "Expo server is already running. Stop it first.", spawned |-> FALSE]
  ELSE [e |-> [process |-> pid, port |-> port, platform |-> platform],
        threw |-> "", spawned |-> TRUE]

getStatus == IF expoProcess # None THEN "running" ELSE "stopped"

getPort == expoPort

getPlatform == expoPlatform

Launch(port, platform, wait) ==
  LET pid == nexpo + 1
      r == launch(Expo, port, platform, pid)
  IN /\ expoProcess = None => nexpo < MaxExpo
     /\ expoProcess' = r.e.process
     /\ expoPort' = r.e.port
     /\ expoPlatform' = r.e.platform
     /\ expoReturned' = r.threw
     /\ IF r.spawned
        THEN /\ expoProcs' = [expoProcs EXCEPT ![pid] = "running"]
             /\ launches' = [launches EXCEPT ![pid] = IF wait THEN "waiting" ELSE "returned"]
        ELSE UNCHANGED <<expoProcs, launches>>
     /\ UNCHANGED <<stops, sessionVars, routerVars, decodeVars>>

\* waitForServer gets an ok response from the port: launch() returns.
ServerReady(pid) ==
  /\ launches[pid] = "waiting"
  /\ \E q \in ExpoPids : ExpoAlive(q)
  /\ launches' = [launches EXCEPT ![pid] = "returned"]
  /\ expoReturned' = ""
  /\ UNCHANGED <<expoProcess, expoPort, expoPlatform, expoProcs, stops,
                 sessionVars, routerVars, decodeVars>>

\* waitForServer runs out of time and throws: launch() rejects.
LaunchTimeout(pid) ==
  /\ launches[pid] = "waiting"
  /\ launches' = [launches EXCEPT ![pid] = "rejected"]
  /\ expoReturned' = ""
  /\ UNCHANGED <<expoProcess, expoPort, expoPlatform, expoProcs, stops,
                 sessionVars, routerVars, decodeVars>>

\* stop() up to the return of its promise.
Stop ==
  IF expoProcess = None
  THEN /\ expoReturned' = "stop: nothing runs"
       /\ UNCHANGED <<expoProcess, expoPort, expoPlatform, expoProcs, launches, stops,
                      sessionVars, routerVars, decodeVars>>
  ELSE /\ \E k \in StopIds :
            /\ stops[k].st = "unused"
            /\ \A j \in StopIds : j < k => stops[j].st # "unused"
            /\ stops' = [stops EXCEPT ![k] = [st |-> "waiting", proc |-> expoProcess, timer |-> TRUE]]
       /\ expoProcs' = expoKill(expoProcs, expoProcess, "SIGTERM")
       /\ expoReturned' = ""
       /\ UNCHANGED <<expoProcess, expoPort, expoPlatform, launches,
                      sessionVars, routerVars, decodeVars>>

\* The callback of `setTimeout(5000).then` in stop().
onStopTimer(e, ps, ss, k) ==
  IF e.process = ss[k].proc
  THEN [e |-> [e EXCEPT !.process = None, !.platform = "null"],
        procs |-> expoKill(ps, ss[k].proc, "SIGKILL"),
        stops |-> [ss EXCEPT ![k].timer = FALSE, ![k].st = "resolved"]]
  ELSE [e |-> e, procs |-> ps, stops |-> [ss EXCEPT ![k].timer = FALSE]]

StopTimer(k) ==
  /\ stops[k].timer
  /\ LET r == onStopTimer(Expo, expoProcs, stops, k)
     IN /\ expoProcess' = r.e.process
        /\ expoPlatform' = r.e.platform
        /\ expoProcs' = r.procs
        /\ stops' = r.stops
  /\ expoReturned' = ""
  /\ UNCHANGED <<expoPort, launches, sessionVars, routerVars, decodeVars>>

\* The 'exit' listeners of child pid: the one launch() registered, then the one
\* of every stop() that found this child.
onExit(e, ss, pid) ==
  [e |-> [e EXCEPT !.process = None,
                   !.platform = IF \E k \in StopIds : ss[k].st # "unused" /\ ss[k].proc = pid
                                THEN "null" ELSE @],
   stops |-> [k \in StopIds |-> IF ss[k].st = "waiting" /\ ss[k].proc = pid
                                THEN [ss[k] EXCEPT !.st = "resolved"]
                                ELSE ss[k]]]

\* The 'exit' event of child pid.
ExpoExit(pid) ==
  /\ ExpoAlive(pid)
  /\ expoProcs' = [expoProcs EXCEPT ![pid] = "exited"]
  /\ expoProcess' = onExit(Expo, stops, pid).e.process
  /\ expoPlatform' = onExit(Expo, stops, pid).e.platform
  /\ stops' = onExit(Expo, stops, pid).stops
  /\ expoReturned' = ""
  /\ UNCHANGED <<expoPort, launches, sessionVars, routerVars, decodeVars>>

NextExpo ==
  \/ \E port \in Ports, platform \in Platforms, wait \in BOOLEAN : Launch(port, platform, wait)
  \/ \E pid \in ExpoPids : ServerReady(pid)
  \/ \E pid \in ExpoPids : LaunchTimeout(pid)
  \/ Stop
  \/ \E k \in StopIds : StopTimer(k)
  \/ \E pid \in ExpoPids : ExpoExit(pid)

SpecExpo == Init /\ [][NextExpo]_vars

\* Timers fire, and a child that was sent SIGKILL exits.
ExpoTimersFire == \A k \in StopIds : WF_vars(StopTimer(k))

KilledExit == \A pid \in ExpoPids : WF_vars(expoProcs[pid] = "SIGKILL" /\ ExpoExit(pid))

SpecExpoLive == Init /\ [][NextExpo]_vars /\ ExpoTimersFire /\ KilledExit

\* ------------------------------------------------------------------ claims

ManagerVars ==
  <<process, tools, requestId, pendingRequests, isInitialized, stdin, outcome, initPc, initId>>

Observed == {stdin[k].id : k \in 1 .. Len(stdin)}

CallIds == {stdin[k].id : k \in {n \in 1 .. Len(stdin) : stdin[n].method = "tools/call"}}

Terminated == Rejected("Maestro process terminated")

TimedOut == Rejected("Request timeout")

\* A task that runs cleanup(): the exit or error event of a child, or shutdown()
\* resuming after the grace period.
CleanupStep ==
  \/ \E pid \in Pids : ProcExit(pid) \/ ProcError(pid)
  \/ ShutdownResume

\* C1: the promise of a registered request is settled exactly when its entry
\* leaves the pending table, and once it is settled no response, timeout, write
\* failure or cleanup changes it or puts the id back into the table.
C1_SettledOnce ==
  [][/\ \A id \in Ids :
          /\ id \in pendingRequests => outcome[id] = Pending
          /\ (id \in pendingRequests /\ id \notin pendingRequests') => Settled(outcome'[id])
          /\ (outcome[id] = Pending /\ outcome'[id] # Pending)
               => (Settled(outcome'[id]) /\ id \notin pendingRequests')
          /\ Settled(outcome[id])
               => (outcome'[id] \in {outcome[id], Unused} /\ id \notin pendingRequests')
     /\ ignored' = "late response" => UNCHANGED <<pendingRequests, outcome>>
     /\ \A id \in Observed :
          (Settled(outcome[id]) /\ (Timeout(id) \/ WriteError(id)))
            => UNCHANGED <<pendingRequests, outcome>>
    ]_vars

\* A request was rejected by cleanup() and its response arrived afterwards.
C1_Witness ==
  /\ ignored = "late response"
  /\ \E id \in Observed :
       /\ outcome[id] = Terminated
       /\ \A j \in Ids \ {id} : ~Settled(outcome[j])

\* C2: a response settles the request whose id it carries, with what it
\* carries, and no other request: whichever of two pending calls is answered
\* first is settled first, each with its own response.
C2_RoutedById ==
  [][\A m \in PeerMsgs :
       (m.id \in pendingRequests /\ ignored' = "" /\ Deliver(m))
         => /\ outcome'[m.id] = IF m.error THEN Rejected("peer error") ELSE Resolved(m.result)
            /\ m.id \notin pendingRequests'
            /\ \A j \in Ids \ {m.id} :
                 j < requestId => /\ outcome'[j] = outcome[j]
                                  /\ (j \in pendingRequests' <=> j \in pendingRequests)
    ]_vars

\* Calls A then B were issued; B has its own result while A is still pending.
C2_Witness ==
  \E a, b \in CallIds :
    /\ a < b
    /\ outcome[b] = Resolved(OkResult)
    /\ callToolResult(outcome[b]).wrapped = OkResult
    /\ outcome[a] = Pending
    /\ a \in pendingRequests

\* C3: the task that runs cleanup() rejects every request that was pending with
\* the termination error and leaves the pending table empty.
C3_DrainAll ==
  [][CleanupStep
       => /\ pendingRequests' = {}
          /\ \A id \in pendingRequests : outcome'[id] = Terminated
    ]_vars

\* Two calls were pending when the peer terminated.
C3_Witness ==
  /\ pendingRequests = {}
  /\ \E a, b \in CallIds : a # b /\ outcome[a] = Terminated /\ outcome[b] = Terminated

\* C4: the timer of a pending request rejects it with the timeout error and
\* removes its entry; a response that arrives for it afterwards changes nothing.
C4_Timeout ==
  [][/\ \A id \in Ids :
          (id \in pendingRequests /\ ignored' = "" /\ Timeout(id))
            => (outcome'[id] = TimedOut /\ id \notin pendingRequests')
     /\ \A m \in PeerMsgs :
          (m.id \in Ids /\ outcome[m.id] = TimedOut /\ Deliver(m))
            => (ignored' = "late response" /\ UNCHANGED ManagerVars)
    ]_vars

\* A call timed out and its response arrived afterwards.
C4_Witness ==
  /\ ignored = "late response"
  /\ \E id \in CallIds :
       /\ outcome[id] = TimedOut
       /\ \A j \in Ids \ {id} : Settled(outcome[j]) => j \notin CallIds /\ outcome[j].st = "resolved"

\* C5: callTool with a name that is not in the capability table of a ready
\* session is refused at once with the not-found error, and nothing of the
\* session changes: no frame is written, no entry registered, no id consumed.
C5_UnknownTool ==
  [][\A name \in Names :
       (isInitialized /\ name \notin tools /\ CallTool(name))
         => /\ ignored' = "callTool: not found"
            /\ stdin' = stdin
            /\ pendingRequests' = pendingRequests
            /\ requestId' = requestId
            /\ UNCHANGED ManagerVars
    ]_vars

\* A ready session that knows "tap" has just refused "missing_op".
C5_Witness ==
  /\ ignored = "callTool: not found"
  /\ isInitialized
  /\ "tap" \in tools
  /\ process = 1

\* C6: callTool on a session that is not ready is refused at once with the
\* not-ready error, whatever the name, and writes and registers nothing.
C6_NotReady ==
  [][\A name \in Names :
       (~isInitialized /\ CallTool(name))
         => /\ ignored' = "callTool: not initialized"
            /\ callTool(This, name).id = NoId
            /\ UNCHANGED <<stdin, pendingRequests, requestId, outcome>>
    ]_vars

\* A session that was ready and has been torn down has just refused a call.
C6_Witness ==
  /\ ignored = "callTool: not initialized"
  /\ initPc = "done"
  /\ process = None
  /\ \E pid \in Pids : procs[pid] = "exited"

Stopped ==
  /\ process = None
  /\ ~isInitialized
  /\ tools = {}
  /\ pendingRequests = {}

\* C8: shutdown() on a stopped session returns without an error and changes
\* nothing; shutdown() that resumes after its grace period leaves the session
\* stopped, and leaves a session that is already stopped as it is.
C8_ShutdownIdempotent ==
  [][/\ (process = None /\ ShutdownStart)
          => /\ ignored' = "shutdown: not running"
             /\ UNCHANGED <<ManagerVars, shutdownWaiting, procs>>
     /\ (shutdownWaiting > 0 /\ ShutdownResume)
          => /\ Stopped'
             /\ Stopped => UNCHANGED <<ManagerVars, procs>>
    ]_vars

\* shutdown() ran to its end, killing the child, and was invoked once more.
C8_Witness ==
  /\ ignored = "shutdown: not running"
  /\ Stopped
  /\ shutdownWaiting = 0
  /\ \E pid \in Pids : procs[pid] = "SIGKILL"

\* The frames of the handshake of the latest initialize().
HandshakeFrames(method) ==
  {k \in 1 .. Len(stdin) : stdin[k].method = method}

C10_CleanFailure ==
  (/\ initPc = "failed"
   /\ outcome[initId].st = "rejected"
   /\ outcome[initId].err \in {"peer error", "Request timeout"})
    => /\ ~isInitialized
       /\ tools = {}
       /\ pendingRequests = {}
       /\ (process = None \/ ~Alive(process))

\* C11: shutdown() on a running session sends SIGTERM to the child it holds and
\* suspends; SIGKILL is sent only by a shutdown() that resumes after its grace
\* period, only to the child the manager holds then, whose exit has not been
\* seen; when it has resumed, every call that was pending is rejected with the
\* termination error and the session is stopped.
C11_GracefulThenForced ==
  [][/\ (process # None /\ ShutdownStart)
          => /\ procs' = kill(procs, process, "SIGTERM")
             /\ \A pid \in Pids : procs'[pid] = "SIGKILL" => procs[pid] = "SIGKILL"
             /\ shutdownWaiting' = shutdownWaiting + 1
             /\ UNCHANGED ManagerVars
     /\ \A pid \in Pids :
          (procs'[pid] = "SIGKILL" /\ procs[pid] # "SIGKILL")
            => /\ shutdownWaiting' = shutdownWaiting - 1
               /\ pid = process
               /\ Alive(pid)
     /\ (shutdownWaiting' < shutdownWaiting)
          => /\ Stopped'
             /\ \A id \in pendingRequests : outcome'[id] = Terminated
             /\ process # None => procs'[process] = "SIGKILL"
    ]_vars

\* shutdown() ran to its end on a session with a call pending: no child has
\* exited, the child was sent SIGKILL and the call was rejected.
C11_Witness ==
  /\ Stopped
  /\ shutdownWaiting = 0
  /\ procs[1] = "SIGKILL"
  /\ \A pid \in Pids : procs[pid] # "exited"
  /\ \E id \in CallIds : outcome[id] = Terminated

\* The session an exit, an error or a resumed shutdown() must leave behind,
\* written from the state before it.
TornDown ==
  [process |-> None,
   tools |-> {},
   requestId |-> requestId,
   pendingRequests |-> {},
   isInitialized |-> FALSE,
   stdin |-> stdin,
   outcome |-> [i \in Ids |-> IF i \in pendingRequests THEN Terminated ELSE outcome[i]],
   initPc |-> IF initPc \in {"awaitInitialize", "awaitToolsList"} THEN "failed" ELSE initPc,
   initId |-> initId]

\* C12: the exit or error event of a child and a shutdown() that resumes leave,
\* from the same state, the same session: table drained with the termination
\* error, not ready, no capabilities, no handle; isReady, getTools and callTool
\* answer alike afterwards.
C12_ExitAsShutdown ==
  [][(\/ shutdownWaiting' < shutdownWaiting
      \/ \E pid \in Pids : Alive(pid) /\ procs'[pid] = "exited")
       => /\ This' = TornDown
          /\ ~isReady'
          /\ getTools' = {}
          /\ \A name \in Names : callTool(This, name)'.threw = "callTool: not initialized"
    ]_vars

\* Two sessions were torn down with a request pending, the first by the exit of
\* its child, the second by shutdown(); both requests have the same outcome.
C12_Witness ==
  /\ Stopped
  /\ procs[1] = "exited"
  /\ procs[2] = "SIGKILL"
  /\ \E a \in CallIds, b \in Observed :
       /\ a < b
       /\ outcome[a] = Terminated
       /\ outcome[b] = Terminated
       /\ \E k \in 1 .. Len(stdin) : stdin[k].id = a /\ stdin[k].pid = 1
       /\ \E k \in 1 .. Len(stdin) : stdin[k].id = b /\ stdin[k].pid = 2

\* C13: a call that is pending when shutdown() tears the session down is
\* rejected with an error other than the one a call gets when the child dies.
C13_DistinctErrors ==
  [][(shutdownWaiting' < shutdownWaiting)
       => \A id \in pendingRequests : outcome'[id] # Terminated
    ]_vars

\* C14: whatever the name and whatever the handler or the peer call did, the
\* CallTool handler ends by returning an envelope, never by throwing.
C14_OneEnvelope ==
  rPc = "done" => (rResult.st = "resolved" /\ rResult.value.shape = "envelope")

\* C15: a name that is no lifecycle operation and does not start with maestro_
\* ends in the error 'Unknown tool' naming it; no handler is called and nothing
\* is forwarded.
C15_UnknownName ==
  (rPc # "idle" /\ rName \notin LifecycleNames /\ ~startsWith(rName))
    => /\ rResult = Threw(<<"Unknown tool: ">> \o rName)
       /\ rCalled = NoCall

\* C16: a name that is not in the registry and starts with maestro_ is forwarded
\* to the peer session as the name without its first maestro_, with the
\* arguments as they came ({} when there are none); a name in the registry is
\* handled locally under its own name; nothing else is forwarded.
C16_PrefixStripped ==
  rPc # "idle"
    => /\ (~inRegistry(rName) /\ startsWith(rName))
            => /\ rCalled.kind = "peer"
               /\ <<Prefix>> \o rCalled.name = rName
               /\ rArgs # Absent => rCalled.args = rArgs
               /\ rArgs = Absent => rCalled.args = EmptyArgs
       /\ inRegistry(rName)
            => /\ rCalled.kind = "local"
               /\ rCalled.name = rName
               /\ rCalled.args \in {rArgs, EmptyArgs}
       /\ rCalled.kind = "peer" => (rName \notin LifecycleNames /\ startsWith(rName))

\* maestro_maestro_tap was forwarded as maestro_tap with its arguments.
C16_Witness ==
  /\ rPc = "done"
  /\ rName = <<Prefix, Prefix, "tap">>
  /\ rCalled = [Call("peer", <<Prefix, "tap">>, "{x: 1}") EXCEPT !.outcome = rCalled.outcome]
  /\ rArgs = "{x: 1}"
  /\ rCalled.outcome.st = "resolved"

\* C17: when the lifecycle handler or the peer call failed, whatever the error,
\* the handler returns the failure envelope made of that error's message.
C17_UniformFailure ==
  (rPc = "done" /\ rCalled.outcome.st = "rejected")
    => /\ rResult = Returned(FailureEnvelope(rCalled.outcome.err))
       /\ rResult.value = [shape |-> "envelope",
                           text |-> <<"Error: ">> \o rCalled.outcome.err,
                           isError |-> TRUE]

\* A forwarded call timed out and the handler returned the failure envelope.
C17_Witness ==
  /\ rPc = "done"
  /\ rCalled.kind = "peer"
  /\ rCalled.outcome = Threw(<<"Request timeout">>)
  /\ rResult.st = "resolved"
  /\ rResult.value.isError

\* C18: a request that has an entry in the pending table loses it in the end,
\* even if no response comes, and the step that removes the entry settles the
\* caller's promise.
C18_EventuallySettles ==
  /\ \A id \in Ids : (id \in pendingRequests) ~> (id \notin pendingRequests)
  /\ [][\A id \in Ids :
          (id \in pendingRequests /\ id \notin pendingRequests') => Settled(outcome'[id])
       ]_vars

\* Two calls are settled, one by its timer and one by teardown, and no response
\* was ever delivered to either.
C18_Witness ==
  \E a, b \in CallIds :
    /\ outcome[a] = TimedOut
    /\ outcome[b] = Terminated
    /\ pendingRequests = {}

\* C19: a call to a known operation of a ready session is accepted and its
\* frame written in the step that issues it, however many requests are pending,
\* and those stay pending; a response settles its request in the step that
\* delivers it, whatever else is pending, and leaves the others pending.
C19_NoBlocking ==
  [][/\ (ignored = "" /\ isInitialized /\ "tap" \in tools /\ CanAllocate(1, "tools/call"))
          => ENABLED CallTool("tap")
     /\ \A name \in Names :
          (isInitialized /\ name \in tools /\ CallTool(name))
            => /\ pendingRequests' = pendingRequests \cup {requestId}
               /\ stdin'[Len(stdin')] = Frame(requestId, "tools/call", name, process)
               /\ \A j \in pendingRequests : outcome'[j] = Pending
     /\ \A id \in pendingRequests : \A r \in Results :
          /\ Msg(id, FALSE, FALSE, r) \in Incoming
          /\ handleMessage(This, Msg(id, FALSE, FALSE, r)).outcome[id] = Resolved(r)
     /\ \A m \in PeerMsgs :
          (m.id \in pendingRequests /\ ignored' = "" /\ Deliver(m))
            => /\ Settled(outcome'[m.id])
               /\ \A j \in pendingRequests \ {m.id} : j \in pendingRequests' /\ outcome'[j] = Pending
    ]_vars

\* Two calls are pending at once: the second was issued and written while the
\* first had no response.
C19_Witness ==
  \E a, b \in CallIds :
    /\ a < b
    /\ {a, b} \subseteq pendingRequests
    /\ \E j, k \in 1 .. Len(stdin) : j < k /\ stdin[j].id = a /\ stdin[k].id = b

LineFeeds(w) == {n \in 1 .. Len(w) : w[n] = LF}

\* C20: a step that takes a correlation id appends the frame of that id to what
\* was written before, so frames are written in the order of the invocations
\* and in increasing id order; no other step writes; and the bytes of a frame
\* hold one line feed, their last.
C20_OrderedFrames ==
  [][/\ \A j, k \in 1 .. Len(stdin) : j < k => stdin[j].id < stdin[k].id
     /\ requestId' \in {requestId, requestId + 1}
     /\ requestId' = requestId => stdin' = stdin
     /\ requestId' = requestId + 1
          => /\ stdin' # <<>>
             /\ stdin'[Len(stdin')].id = requestId
             /\ \A j \in 1 .. (Len(stdin') - 1) : \E k \in 1 .. Len(stdin) : stdin'[j] = stdin[k]
             /\ \A text \in ArgTexts :
                  LET w == wire(stdin'[Len(stdin')], text)
                  IN LineFeeds(w) = {Len(w)}
    ]_vars

\* Two calls were written after the handshake, in the order of their ids, and
\* the second, with a line feed in its arguments, is one line.
C20_Witness ==
  /\ Len(stdin) = 4
  /\ stdin[3].method = "tools/call"
  /\ stdin[4] = Frame(stdin[3].id + 1, "tools/call", "tap", 1)
  /\ wire(stdin[4], <<"x", LF, "y">>)
       = <<"{", "tools/call", "tap", "arguments", "\"", "x", "\\", "n", "y", "\"", "}", LF>>

\* C21: the counter never goes back; a step registers at most the id the
\* counter stood at, which was never handed out and has no entry, and moves the
\* counter past it; so the ids issued are below the counter and the frames
\* written, handshake requests and calls alike, carry different ids.
C21_UniqueIds ==
  [][/\ requestId' >= requestId
     /\ \A id \in Ids :
          (id \notin pendingRequests /\ id \in pendingRequests')
            => /\ id = requestId
               /\ requestId' = requestId + 1
               /\ outcome[id] = Unused
     /\ \A id \in Ids : id >= requestId => (id \notin pendingRequests /\ outcome[id] = Unused)
     /\ \A j, k \in 1 .. Len(stdin) : stdin[j].id = stdin[k].id => j = k
    ]_vars

\* The second session took its handshake ids after the id of a call of the
\* first: the counter went on across the teardown.
C21_Witness ==
  /\ process = 2
  /\ isInitialized
  /\ requestId = 5
  /\ \E j, k, l \in 1 .. Len(stdin) :
       /\ stdin[j] = Frame(2, "tools/call", "tap", 1)
       /\ stdin[k] = Frame(3, "initialize", "", 2)
       /\ stdin[l] = Frame(4, "tools/list", "", 2)

\* C22: when the peer answers a call with a result R, the caller of callTool
\* receives exactly R.
C22_ExactResult ==
  \A id \in CallIds :
    (outcome[id].st = "resolved" /\ outcome[id].val.def)
      => callToolValue(outcome[id].val) = TheResponse(outcome[id].val)

C26_WriteFailure ==
  [][\A id \in Ids :
       (id \in pendingRequests /\ id \notin pendingRequests' /\ WriteError(id))
         => /\ outcome'[id] = Rejected("write error")
            /\ pendingRequests' = pendingRequests \ {id}
            /\ \A j \in Ids \ {id} : outcome'[j] = outcome[j]
            /\ isInitialized' = isInitialized
            /\ tools' = tools
            /\ process' = process
            /\ procs' = procs
    ]_vars

\* The write of one call failed while another call of the ready session is
\* still pending.
C26_Witness ==
  /\ isInitialized
  /\ \E a, b \in CallIds :
       /\ outcome[a] = Rejected("write error")
       /\ a \notin pendingRequests
       /\ outcome[b] = Pending
       /\ b \in pendingRequests

C29_ShapeChecked ==
  isReady
    => \A method \in {"initialize", "tools/list"} : \A k \in HandshakeFrames(method) :
         /\ outcome[stdin[k].id].st = "resolved"
         /\ method = "tools/list"
              => (outcome[stdin[k].id].val.def /\ outcome[stdin[k].id].val.hasTools)

\* C30: a message of the peer that carries a method settles no pending
\* request, whatever its id.
C30_RequestsSettleNothing ==
  [][\A m \in PeerMsgs :
       (m.method /\ Deliver(m))
         => /\ pendingRequests' = pendingRequests
            /\ outcome' = outcome
    ]_vars

\* C24: however the text of the child is cut into 'data' events, the messages
\* handed to handleMessage are those of the lines of the text received, one for
\* each line that is ended by LF and is a message, in the order of the text;
\* the text after the last LF is held in readBuffer, and the text received is
\* its complete lines followed by what is held.
C24_ChunkingIndependent ==
  /\ delivered = handleStdout(This, <<>>, dSeen).emitted
  /\ readBuffer = handleStdout(This, <<>>, dSeen).readBuffer
  /\ dSeen = join(Front(split(dSeen))) \o readBuffer
  /\ \A i \in 1 .. Len(readBuffer) : readBuffer[i] # LF
  /\ Len(delivered) <= Cardinality({i \in 1 .. Len(dSeen) : dSeen[i] = LF})

\* A 'data' event, not the first, ended inside the third line: the two
\* messages before it were delivered and the beginning of the line is held.
C24_Witness ==
  /\ dChunks = 2
  /\ dSeen = <<"{", "0", "}", LF, "{", "1", "}", LF, "{">>
  /\ dRest = <<"0", "}", LF>>
  /\ Len(delivered) = 2
  /\ delivered[1].id = 0
  /\ delivered[2].id = 1
  /\ readBuffer = <<"{">>

\* C25: in a 'data' event, a line that is not JSON, a null, and a message whose
\* id has no entry are passed over: a chunk of such lines alone leaves the
\* table, the promises, the readiness and the tools as they were, and a message
\* for a pending id settles its request wherever in the chunk its line stands,
\* after lines that were passed over as well; handleMessage gets one message
\* for each line that holds one.
C25_BadLinesDropped ==
  [][dSeen' # dSeen
       => \A lines \in {Front(split(readBuffer \o SubSeq(dSeen', Len(dSeen) + 1, Len(dSeen'))))} :
          \A held \in {{k \in 1 .. Len(lines) : emits(lines[k])}} :
          \A routed \in {{JSONparse(lines[k]).message.id : k \in held} \cap pendingRequests} :
            /\ routed = {} => UNCHANGED ManagerVars
            /\ \A id \in routed :
                 /\ outcome'[id] = Resolved(OkResult)
                 /\ id \notin pendingRequests'
            /\ Len(delivered') - Len(delivered) = Cardinality(held)
            /\ ignored' = ""
    ]_vars

\* One 'data' event brought a line that is not JSON, a response with an id
\* that has no entry, and then the response to the initialize request, which
\* was resolved by it.
C25_Witness ==
  /\ dChunks = 1
  /\ dSeen = <<"{", "0", LF, "{", "1", "}", LF, "{", "0", "}", LF>>
  /\ Len(delivered) = 2
  /\ outcome[0] = Resolved(OkResult)
  /\ initPc = "awaitToolsList"
  /\ pendingRequests = {1}

\* C31: readBuffer does not outlive the child it was read from: it is empty
\* when the session holds no child, and the messages of a session are those of
\* the lines its own child printed.
C31_BufferPerProcess ==
  /\ process = None => readBuffer = <<>>
  /\ delivered = messages(Front(split(dSeen)))

\* C32: the exit or error event of a child that is not the one the session
\* holds leaves the session as it is.
C32_StaleExitIgnored ==
  [][\A pid \in Pids :
       (pid # process /\ procs[pid] # "exited" /\ procs'[pid] = "exited"
          /\ (ProcExit(pid) \/ ProcError(pid)))
         => UNCHANGED ManagerVars
    ]_vars

\* C33: a shutdown() that resumes after its grace period while the session
\* holds a child that no shutdown() signalled, one spawned since, neither kills
\* that child nor changes the session.
C33_ShutdownOwnProcess ==
  [][(process # None /\ procs[process] = "running" /\ shutdownWaiting' < shutdownWaiting
        /\ ShutdownResume)
       => /\ procs' = procs
          /\ UNCHANGED ManagerVars
    ]_vars

AlreadyRunning == "Expo server is already running. Stop it first."

\* C36: launch() called while a child is tracked throws the already-running
\* error and changes nothing: the tracked child, the port, the platform, the
\* children and the launches in progress are as before, and no child is spawned.
C36_LaunchRefused ==
  [][(expoProcess # None
        /\ \E port \in Ports, platform \in Platforms, wait \in BOOLEAN :
             Launch(port, platform, wait))
       => /\ expoReturned' = AlreadyRunning
          /\ UNCHANGED <<expoProcess, expoPort, expoPlatform, expoProcs, launches, stops>>
    ]_vars /\ [](expoReturned = AlreadyRunning => expoProcess # None)

\* A launch() was refused while the child of an earlier launch({port: 19000,
\* platform: 'ios'}) is tracked and that launch still waits for the server.
C36_Witness ==
  /\ expoReturned = AlreadyRunning
  /\ expoProcess = 1
  /\ expoPort = 19000
  /\ expoPlatform = "ios"
  /\ launches[1] = "waiting"
  /\ nexpo = 1

\* C37: at most one child that was launched and neither exited nor was sent
\* SIGKILL exists at a time, and getStatus() is 'running' whenever the child
\* launched last runs and no stop() has signalled it.
C37_TracksFaithfully ==
  /\ Cardinality({pid \in ExpoPids : expoProcs[pid] \in {"running", "SIGTERM"}}) <= 1
  /\ (nexpo > 0 /\ expoProcs[nexpo] = "running") => getStatus = "running"

\* C38: once the launch() that spawned the latest child has rejected because
\* the server did not become ready, that child does not run and is not
\* tracked: getStatus() is 'stopped' and a launch() would not be refused.
C38_FailedLaunchCleansUp ==
  (nexpo > 0 /\ launches[nexpo] = "rejected")
    => /\ ~ExpoAlive(nexpo)
       /\ getStatus = "stopped"
       /\ launch(Expo, DefaultPort, "null", nexpo + 1).threw = ""

\* C39: a stop() that found a child resolves in the end; when it resolves
\* getStatus() is 'stopped'; and SIGKILL goes only to the tracked child, for
\* which a stop() waits.
C39_StopCompletes ==
  /\ \A k \in StopIds : (stops[k].st = "waiting") ~> (stops[k].st = "resolved")
  /\ [][\A k \in StopIds :
          (stops[k].st = "waiting" /\ stops'[k].st = "resolved") => getStatus' = "stopped"
       ]_vars
  /\ [][\A pid \in ExpoPids :
          (expoProcs[pid] # "SIGKILL" /\ expoProcs'[pid] = "SIGKILL")
            => /\ expoProcess = pid
               /\ \E k \in StopIds : stops[k].st = "waiting" /\ stops[k].proc = pid
       ]_vars

\* C40: whenever getStatus() is 'stopped', getPlatform() is null.
C40_StoppedHasNoPlatform ==
  getStatus = "stopped" => getPlatform = "null"

====
